---- MODULE Spec2Model ----
(***************************************************************************)
(* Clockify -> Slack status synchronisation.                               *)
(*                                                                         *)
(* The repository holds the same job twice: lambda_function.py (the        *)
(* scheduled function, entry point lambda_handler) and main.py (the        *)
(* standalone script).  The model runs both variants side by side against  *)
(* the same responses of the two services: whenever both variants stand at *)
(* the same outbound call, one response is drawn and handed to both.       *)
(* Each variant's steps are translated from its own file.                  *)
(*                                                                         *)
(* Python values are tagged records, because the code depends on their     *)
(* type: a missing policyName defaults to a dict, which cannot be hashed.  *)
(* Log records are kept for warnings and errors only; the informational    *)
(* print() lines change nothing that is observed here.                     *)
(***************************************************************************)
EXTENDS Integers, Sequences, FiniteSets, TLC

VARIABLES pc, time_off_users, idx, expiration_time, slack_user_id,
          calls, log, result, fetch_response

vars == <<pc, time_off_users, idx, expiration_time, slack_user_id,
          calls, log, result, fetch_response>>

Variants == {"lambda", "main"}

\* Largest number of entries in the "requests" collection of a fetch response.
MaxRequests == 2

(***************************************************************************)
(* Python values                                                           *)
(***************************************************************************)
PyNone == [tag |-> "None"]
PyStr(s) == [tag |-> "str", val |-> s]
PyBool(b) == [tag |-> "bool", val |-> b]
PyDict(f) == [tag |-> "dict", val |-> f]
EmptyDict == PyDict([k \in {} |-> PyNone])

\* bool(x) as `if x:` and `not x` evaluate it
Truthy(x) ==
    CASE x.tag = "None" -> FALSE
      [] x.tag = "bool" -> x.val
      [] x.tag = "str"  -> x.val /= ""
      [] x.tag = "dict" -> DOMAIN x.val /= {}

\* d.get(key, default)
Get(d, key, default) == IF key \in DOMAIN d.val THEN d.val[key] ELSE default

\* hash(x) succeeds: dict keys and `in` on a dict need it
Hashable(x) == x.tag /= "dict"

(***************************************************************************)
(* Module constants                                                        *)
(***************************************************************************)
STATUS_MAP ==
    [p \in {"Vacations", "Sick"} |->
        IF p = "Vacations" THEN <<"On Holiday", ":palm_tree:">>
                           ELSE <<"Off Sick", ":face_with_thermometer:">>]

HTTP_OK == 200

Envelope == [statusCode |-> 200, body |-> "Lambda function completed successfully!"]
NoResult == [statusCode |-> 0, body |-> ""]

(***************************************************************************)
(* Strings as characters.  TLC's strings are atoms, so the strings that    *)
(* are parsed are looked up here by their characters.                      *)
(***************************************************************************)
EndZulu == "2025-06-02T23:59:59.999999Z"
EndGarbage == "next monday"

Chars(s) ==
    CASE s = EndZulu ->
           <<"2", "0", "2", "5", "-", "0", "6", "-", "0", "2", "T", "2", "3",
             ":", "5", "9", ":", "5", "9", ".", "9", "9", "9", "9", "9", "9", "Z">>
      [] s = EndGarbage ->
           <<"n", "e", "x", "t", " ", "m", "o", "n", "d", "a", "y">>
      [] OTHER -> <<>>

DigitChars == {"0", "1", "2", "3", "4", "5", "6", "7", "8", "9"}

Digit(c) ==
    CASE c = "0" -> 0 [] c = "1" -> 1 [] c = "2" -> 2 [] c = "3" -> 3
      [] c = "4" -> 4 [] c = "5" -> 5 [] c = "6" -> 6 [] c = "7" -> 7
      [] c = "8" -> 8 [] c = "9" -> 9

AllDigits(cs, i, j) == j <= Len(cs) /\ \A k \in i..j : cs[k] \in DigitChars

RECURSIVE Num(_, _, _)
Num(cs, i, j) == IF j < i THEN 0 ELSE 10 * Num(cs, i, j - 1) + Digit(cs[j])

\* str.replace("Z", "+00:00"): every "Z" of the string is replaced
RECURSIVE ReplaceZ(_)
ReplaceZ(cs) ==
    IF cs = <<>> THEN <<>>
    ELSE (IF Head(cs) = "Z" THEN <<"+", "0", "0", ":", "0", "0">> ELSE <<Head(cs)>>)
         \o ReplaceZ(Tail(cs))

(***************************************************************************)
(* datetime: the proleptic Gregorian ordinal, as datetime.py counts it     *)
(***************************************************************************)
IsLeap(y) == y % 4 = 0 /\ (y % 100 /= 0 \/ y % 400 = 0)

DaysInMonth(y, m) ==
    CASE m \in {1, 3, 5, 7, 8, 10, 12} -> 31
      [] m \in {4, 6, 9, 11} -> 30
      [] OTHER -> IF IsLeap(y) THEN 29 ELSE 28

DaysBeforeYear(y) ==
    LET y1 == y - 1 IN y1 * 365 + (y1 \div 4) - (y1 \div 100) + (y1 \div 400)

RECURSIVE DaysBeforeMonth(_, _)
DaysBeforeMonth(y, m) ==
    IF m <= 1 THEN 0 ELSE DaysBeforeMonth(y, m - 1) + DaysInMonth(y, m - 1)

Ymd2Ord(y, m, d) == DaysBeforeYear(y) + DaysBeforeMonth(y, m) + d

\* datetime.fromisoformat on YYYY-MM-DD?HH:MM:SS[.fff[fff]](+|-)HH:MM, the
\* form the time-tracking service's instants take once "Z" is replaced.
\* ok = FALSE is ValueError.
FromIsoFormat(cs) ==
    LET n == Len(cs)
        head == /\ n >= 19
                /\ AllDigits(cs, 1, 4) /\ cs[5] = "-"
                /\ AllDigits(cs, 6, 7) /\ cs[8] = "-"
                /\ AllDigits(cs, 9, 10)
                /\ AllDigits(cs, 12, 13) /\ cs[14] = ":"
                /\ AllDigits(cs, 15, 16) /\ cs[17] = ":"
                /\ AllDigits(cs, 18, 19)
        bad == [ok |-> FALSE, year |-> 0, month |-> 0, day |-> 0, hour |-> 0,
                minute |-> 0, second |-> 0, microsecond |-> 0, utcoffset |-> 0]
    IN  IF ~head THEN bad
        ELSE
        LET rest == SubSeq(cs, 20, n)
            hasFrac == Len(rest) > 0 /\ rest[1] = "."
            fracLen == IF ~hasFrac THEN 0
                       ELSE IF AllDigits(rest, 2, 7) THEN 6
                       ELSE IF AllDigits(rest, 2, 4) THEN 3
                       ELSE -1
            tz == IF fracLen = 0 THEN rest
                  ELSE IF fracLen > 0 THEN SubSeq(rest, fracLen + 2, Len(rest))
                  ELSE <<>>
            tzOk == /\ fracLen >= 0
                    /\ Len(tz) = 6
                    /\ tz[1] \in {"+", "-"}
                    /\ AllDigits(tz, 2, 3) /\ tz[4] = ":" /\ AllDigits(tz, 5, 6)
            y == Num(cs, 1, 4)
            mo == Num(cs, 6, 7)
            d == Num(cs, 9, 10)
            hh == Num(cs, 12, 13)
            mi == Num(cs, 15, 16)
            ss == Num(cs, 18, 19)
            us == IF fracLen = 6 THEN Num(rest, 2, 7)
                  ELSE IF fracLen = 3 THEN 1000 * Num(rest, 2, 4)
                  ELSE 0
        IN  IF ~tzOk THEN bad
            ELSE
            LET offAbs == 3600 * Num(tz, 2, 3) + 60 * Num(tz, 5, 6)
                off == IF tz[1] = "-" THEN 0 - offAbs ELSE offAbs
                inRange == /\ y >= 1 /\ mo \in 1..12
                           /\ d >= 1 /\ d <= DaysInMonth(y, mo)
                           /\ hh <= 23 /\ mi <= 59 /\ ss <= 59
                           /\ Num(tz, 2, 3) <= 23 /\ Num(tz, 5, 6) <= 59
            IN  IF ~inRange THEN bad
                ELSE [ok |-> TRUE, year |-> y, month |-> mo, day |-> d,
                      hour |-> hh, minute |-> mi, second |-> ss,
                      microsecond |-> us, utcoffset |-> off]

\* whole seconds of (dt - 1970-01-01T00:00:00+00:00) and the microseconds left
TotalSeconds(dt) ==
    (Ymd2Ord(dt.year, dt.month, dt.day) - Ymd2Ord(1970, 1, 1)) * 86400
    + dt.hour * 3600 + dt.minute * 60 + dt.second - dt.utcoffset

\* int(dt.timestamp()) with round() in the place of int()
IntTimestampRounded(dt) ==
    IF dt.microsecond >= 500000 THEN TotalSeconds(dt) + 1 ELSE TotalSeconds(dt)

\* int(dt.timestamp()): int() drops the fraction towards zero
IntTimestamp(dt) ==
    IF TotalSeconds(dt) < 0 /\ dt.microsecond > 0
    THEN TotalSeconds(dt) + 1
    ELSE TotalSeconds(dt)

\* int(datetime.fromisoformat(end_date.replace("Z", "+00:00")).timestamp())
\* if end_date else 0
ExpirationTime(end_date) ==
    IF ~Truthy(end_date) THEN [raised |-> FALSE, value |-> 0]
    ELSE LET dt == FromIsoFormat(ReplaceZ(Chars(end_date.val)))
         IN  IF dt.ok THEN [raised |-> FALSE, value |-> IntTimestamp(dt)]
             ELSE [raised |-> TRUE, value |-> 0]

(***************************************************************************)
(* What the two services may answer                                        *)
(***************************************************************************)
Absent == "<absent>"

Emails == {"ann@corp.io", "bob@corp.io"}
PolicyNames == {"Vacations", "Sick", "Unpaid leave", Absent}
\* end instants as the time-tracking service writes them (UTC, "Z"), a text
\* that is no timestamp, or no end at all; a timestamp without a zone, which
\* timestamp() would read in the host's local time, is not among the inputs
EndDates == {EndZulu, EndGarbage, Absent}
UserIds == {"U1"}
FetchStatusCodes == {200, 401, 500}
UpdateStatusCodes == {200, 500}

Field(key, value) == IF value = Absent THEN [k \in {} |-> PyNone] ELSE key :> PyStr(value)

\* one object of the "requests" collection; an absent policyName or end is a
\* key the object does not carry
Request(e, p, t) ==
    PyDict(("userEmail" :> PyStr(e))
        @@ ("userName" :> PyStr("Employee"))
        @@ ("status" :> PyDict("statusType" :> PyStr("APPROVED")))
        @@ ("timeOffPeriod" :>
               PyDict("period" :>
                   PyDict(("start" :> PyStr("2025-06-02T00:00:00Z")) @@ Field("end", t))))
        @@ Field("policyName", p))

Requests == {Request(e, p, t) : e \in Emails, p \in PolicyNames, t \in EndDates}

RequestLists == UNION {[1..n -> Requests] : n \in 0..MaxRequests}

\* a response body: JSON (data is what response.json() returns) or not JSON
\* (response.json() raises)
NotJson == [json |-> FALSE, data |-> PyNone]
JsonBody(d) == [json |-> TRUE, data |-> d]

\* a 200 carries the documented JSON; an error status carries any body
FetchResponses ==
    LET documented == {JsonBody(PyDict("requests" :> l)) : l \in RequestLists}
                      \cup {JsonBody(EmptyDict)}
    IN  {r \in [status_code : FetchStatusCodes, body : documented \cup {NotJson}] :
            r.status_code = HTTP_OK => r.body.json}

LookupResponses ==
    \* the lookup does not read the status code; a body that is not JSON is
    \* what an error status carries
    [body : {JsonBody(PyDict(("ok" :> PyBool(TRUE)) @@ ("user" :> PyDict("id" :> PyStr(u)))))
                : u \in UserIds}
            \cup {JsonBody(PyDict(("ok" :> PyBool(FALSE)) @@ ("error" :> PyStr("users_not_found")))),
                  NotJson}]

UpdateResponses ==
    LET documented ==
            {JsonBody(PyDict("ok" :> PyBool(TRUE))),
             JsonBody(PyDict(("ok" :> PyBool(FALSE)) @@ ("error" :> PyStr("invalid_auth"))))}
    IN  {r \in [status_code : UpdateStatusCodes, body : documented \cup {NotJson}] :
            r.status_code = HTTP_OK => r.body.json}

(***************************************************************************)
(* The functions of the two files.  Each returns what the call leaves      *)
(* behind: raised (an exception left the function), value (what it         *)
(* returned) and log (the warnings and errors it recorded).                *)
(***************************************************************************)
LogEntry(level, site, rec) == [level |-> level, site |-> site, rec |-> rec]

\* Normalize with main.py's policyName defaulting to None instead of {}
Normalize_NoneDefault(v, req) ==
    LET period == Get(Get(req, "timeOffPeriod", EmptyDict), "period", EmptyDict)
        common == [email |-> Get(req, "userEmail", PyNone),
                   name |-> Get(req, "userName", PyNone),
                   start |-> Get(period, "start", PyNone),
                   end |-> Get(period, "end", PyNone)]
    IN  IF v = "main"
        THEN common @@ [policy_name |-> Get(req, "policyName", PyNone),
                        status |-> Get(Get(req, "status", EmptyDict), "statusType", PyNone)]
        ELSE common @@ [policy_name |-> Get(req, "policyName", EmptyDict)]

\* the dict built per request by the list comprehension
Normalize(v, req) ==
    LET period == Get(Get(req, "timeOffPeriod", EmptyDict), "period", EmptyDict)
        common == [email |-> Get(req, "userEmail", PyNone),
                   name |-> Get(req, "userName", PyNone),
                   start |-> Get(period, "start", PyNone),
                   end |-> Get(period, "end", PyNone),
                   policy_name |-> Get(req, "policyName", EmptyDict)]
    IN  IF v = "main"
        THEN common @@ [status |-> Get(Get(req, "status", EmptyDict), "statusType", PyNone)]
        ELSE common

\* get_time_off_requests without the test of the status code
get_time_off_requests_unchecked(v, response) ==
    IF ~response.body.json
    THEN [raised |-> TRUE, value |-> <<>>, log |-> <<>>]
    ELSE LET requests_list == Get(response.body.data, "requests", <<>>)
         IN  [raised |-> FALSE,
              value |-> [i \in 1..Len(requests_list) |-> Normalize(v, requests_list[i])],
              log |-> <<>>]

get_time_off_requests(v, response) ==
    IF response.status_code = HTTP_OK
    THEN IF ~response.body.json
         THEN [raised |-> TRUE, value |-> <<>>, log |-> <<>>]
         ELSE LET requests_list == Get(response.body.data, "requests", <<>>)
              IN  IF v = "main" /\ Len(requests_list) = 0
                  THEN [raised |-> FALSE, value |-> <<>>, log |-> <<>>]
                  ELSE [raised |-> FALSE,
                        value |-> [i \in 1..Len(requests_list) |->
                                      Normalize(v, requests_list[i])],
                        log |-> <<>>]
    ELSE [raised |-> FALSE, value |-> <<>>,
          log |-> <<LogEntry("error", "get_time_off_requests", 0)>>]

\* get_slack_user_id without its warning
get_slack_user_id_silent(v, rec, response) ==
    IF ~response.body.json
    THEN [raised |-> TRUE, value |-> PyNone, log |-> <<>>]
    ELSE LET data == response.body.data
         IN  IF Truthy(Get(data, "ok", PyNone))
             THEN [raised |-> FALSE, value |-> data.val["user"].val["id"], log |-> <<>>]
             ELSE [raised |-> FALSE, value |-> PyNone, log |-> <<>>]

get_slack_user_id(v, rec, response) ==
    IF ~response.body.json
    THEN [raised |-> TRUE, value |-> PyNone, log |-> <<>>]
    ELSE LET data == response.body.data
         IN  IF Truthy(Get(data, "ok", PyNone))
             THEN IF "user" \in DOMAIN data.val /\ "id" \in DOMAIN data.val["user"].val
                  THEN [raised |-> FALSE, value |-> data.val["user"].val["id"], log |-> <<>>]
                  ELSE [raised |-> TRUE, value |-> PyNone, log |-> <<>>]
             ELSE [raised |-> FALSE, value |-> PyNone,
                   log |-> <<LogEntry("warning", "get_slack_user_id", rec)>>]

set_user_status(v, rec, response) ==
    IF response.status_code = HTTP_OK
    THEN IF ~response.body.json
         THEN [raised |-> TRUE, log |-> <<>>]
         ELSE IF Truthy(Get(response.body.data, "ok", PyNone))
              THEN [raised |-> FALSE, log |-> <<>>]
              ELSE [raised |-> FALSE, log |-> <<LogEntry("error", "set_user_status", rec)>>]
    ELSE \* the failure message formats response.json()
         IF ~response.body.json
         THEN [raised |-> TRUE, log |-> <<>>]
         ELSE [raised |-> FALSE, log |-> <<LogEntry("error", "set_user_status", rec)>>]

\* `policy_name in STATUS_MAP`: "TypeError" when the name cannot be hashed
PolicyKnown(policy_name) ==
    IF ~Hashable(policy_name) THEN "TypeError"
    ELSE IF policy_name.tag = "str" /\ policy_name.val \in DOMAIN STATUS_MAP THEN "yes"
    ELSE "no"

(***************************************************************************)
(* The run of one variant                                                  *)
(*   pc: "start"    update_slack_status_for_time_off_users entered         *)
(*       "loop"     at the head of `for user in time_off_users`            *)
(*       "lookup"   about to call get_slack_user_id                        *)
(*       "update"   about to call set_user_status                          *)
(*       "returned" the entry point returned                               *)
(*       "raised"   an exception left the entry point (nothing catches it) *)
(***************************************************************************)
Call(kind, rec, email, user, text, emoji, expiration, outcome) ==
    [kind |-> kind, rec |-> rec, email |-> email, user |-> user, text |-> text,
     emoji |-> emoji, expiration |-> expiration, outcome |-> outcome]

Cur(v) ==
    [pc |-> pc[v], time_off_users |-> time_off_users[v], idx |-> idx[v],
     expiration_time |-> expiration_time[v], slack_user_id |-> slack_user_id[v],
     calls |-> calls[v], log |-> log[v], result |-> result[v]]

\* the entry point returns: lambda_handler hands back its envelope
Returned(v, st) ==
    [st EXCEPT !.pc = "returned",
               !.result = IF v = "lambda" THEN Envelope ELSE NoResult]

\* time_off_users = get_time_off_requests(), up to the head of the loop
FetchStep(v, response) ==
    LET r == get_time_off_requests(v, response)
        outcome == IF r.raised THEN "raised"
                   ELSE IF response.status_code = HTTP_OK THEN "fetched" ELSE "error"
        st == [Cur(v) EXCEPT
                 !.calls = Append(@, Call("fetch", 0, PyNone, "", "", "", 0, outcome)),
                 !.log = @ \o r.log]
    IN  IF r.raised THEN [st EXCEPT !.pc = "raised"]
        ELSE IF v = "main" /\ Len(r.value) = 0
             THEN Returned(v, [st EXCEPT !.time_off_users = r.value])
             ELSE [st EXCEPT !.pc = "loop", !.time_off_users = r.value, !.idx = 1]

\* the loop is exhausted
LoopExitStep(v) == Returned(v, Cur(v))

\* one iteration, from the head of the loop to the lookup call: the expiration
\* is computed first, then the policy is tested
ProcessRecordStep(v) ==
    LET st == Cur(v)
        user == time_off_users[v][idx[v]]
        exp == ExpirationTime(user.end)
        known == PolicyKnown(user.policy_name)
    IN  IF exp.raised THEN [st EXCEPT !.pc = "raised"]
        ELSE IF known = "TypeError"
             THEN [st EXCEPT !.pc = "raised", !.expiration_time = exp.value]
        ELSE IF known = "yes"
             THEN [st EXCEPT !.pc = "lookup", !.expiration_time = exp.value]
        ELSE [st EXCEPT !.idx = @ + 1, !.expiration_time = exp.value,
                        !.log = IF v = "main"
                                THEN Append(@, LogEntry("warning", "unknown_policy", idx[v]))
                                ELSE @]

\* LookupStep with a cache: an email that an earlier lookup of the run
\* resolved is not looked up again
LookupStep_Cached(v, response) ==
    LET user == time_off_users[v][idx[v]]
        hits == {k \in 1..Len(calls[v]) :
                    /\ calls[v][k].kind = "lookup"
                    /\ calls[v][k].email = user.email
                    /\ calls[v][k].outcome \in UserIds}
        r == get_slack_user_id(v, idx[v], response)
        outcome == IF r.raised THEN "raised"
                   ELSE IF r.value.tag = "str" THEN r.value.val ELSE "None"
        st == [Cur(v) EXCEPT
                 !.calls = Append(@, Call("lookup", idx[v], user.email, "", "", "", 0, outcome)),
                 !.log = @ \o r.log]
    IN  IF hits /= {}
        THEN [Cur(v) EXCEPT !.pc = "update",
                            !.slack_user_id = calls[v][CHOOSE k \in hits : TRUE].outcome]
        ELSE IF r.raised THEN [st EXCEPT !.pc = "raised"]
        ELSE IF Truthy(r.value)
             THEN [st EXCEPT !.pc = "update", !.slack_user_id = r.value.val]
        ELSE [st EXCEPT !.pc = "loop", !.idx = @ + 1,
                        !.log = IF v = "lambda"
                                THEN Append(@, LogEntry("warning", "skipping_status_update", idx[v]))
                                ELSE @]

\* slack_user_id = get_slack_user_id(email) and the test of its result
LookupStep(v, response) ==
    LET user == time_off_users[v][idx[v]]
        r == get_slack_user_id(v, idx[v], response)
        outcome == IF r.raised THEN "raised"
                   ELSE IF r.value.tag = "str" THEN r.value.val ELSE "None"
        st == [Cur(v) EXCEPT
                 !.calls = Append(@, Call("lookup", idx[v], user.email, "", "", "", 0, outcome)),
                 !.log = @ \o r.log]
    IN  IF r.raised THEN [st EXCEPT !.pc = "raised"]
        ELSE IF Truthy(r.value)
             THEN [st EXCEPT !.pc = "update", !.slack_user_id = r.value.val]
        ELSE [st EXCEPT !.pc = "loop", !.idx = @ + 1,
                        !.log = IF v = "lambda"
                                THEN Append(@, LogEntry("warning", "skipping_status_update", idx[v]))
                                ELSE @]

\* UpdateStep that sends a failed update once more
UpdateStep_Retry(v, response) ==
    LET user == time_off_users[v][idx[v]]
        status == STATUS_MAP[user.policy_name.val]
        r == set_user_status(v, idx[v], response)
        outcome == IF r.raised THEN "raised"
                   ELSE IF r.log = <<>> THEN "updated" ELSE "failed"
        st == [Cur(v) EXCEPT
                 !.calls = Append(@, Call("update", idx[v], user.email, slack_user_id[v],
                                          status[1], status[2], expiration_time[v], outcome)),
                 !.log = @ \o r.log]
    IN  IF r.raised THEN [st EXCEPT !.pc = "raised"]
        ELSE IF outcome = "failed" /\ calls[v][Len(calls[v])].kind /= "update"
             THEN st
        ELSE [st EXCEPT !.pc = "loop", !.idx = @ + 1]

\* set_user_status(slack_user_id, *STATUS_MAP[policy_name], expiration_time)
UpdateStep(v, response) ==
    LET user == time_off_users[v][idx[v]]
        status == STATUS_MAP[user.policy_name.val]
        r == set_user_status(v, idx[v], response)
        outcome == IF r.raised THEN "raised"
                   ELSE IF r.log = <<>> THEN "updated" ELSE "failed"
        st == [Cur(v) EXCEPT
                 !.calls = Append(@, Call("update", idx[v], user.email, slack_user_id[v],
                                          status[1], status[2], expiration_time[v], outcome)),
                 !.log = @ \o r.log]
    IN  IF r.raised THEN [st EXCEPT !.pc = "raised"]
        ELSE [st EXCEPT !.pc = "loop", !.idx = @ + 1]

AtStart(v) == pc[v] = "start"
AtLoopEnd(v) == pc[v] = "loop" /\ idx[v] > Len(time_off_users[v])
AtRecord(v) == pc[v] = "loop" /\ idx[v] <= Len(time_off_users[v])
AtLookup(v) == pc[v] = "lookup"
AtUpdate(v) == pc[v] = "update"

\* the variants move to the states `new` gives them
Take(new) ==
    /\ pc' = [v \in Variants |-> new[v].pc]
    /\ time_off_users' = [v \in Variants |-> new[v].time_off_users]
    /\ idx' = [v \in Variants |-> new[v].idx]
    /\ expiration_time' = [v \in Variants |-> new[v].expiration_time]
    /\ slack_user_id' = [v \in Variants |-> new[v].slack_user_id]
    /\ calls' = [v \in Variants |-> new[v].calls]
    /\ log' = [v \in Variants |-> new[v].log]
    /\ result' = [v \in Variants |-> new[v].result]

Init ==
    /\ pc = [v \in Variants |-> "start"]
    /\ time_off_users = [v \in Variants |-> <<>>]
    /\ idx = [v \in Variants |-> 0]
    /\ expiration_time = [v \in Variants |-> 0]
    /\ slack_user_id = [v \in Variants |-> ""]
    /\ calls = [v \in Variants |-> <<>>]
    /\ log = [v \in Variants |-> <<>>]
    /\ result = [v \in Variants |-> NoResult]
    /\ fetch_response = [status_code |-> 0, body |-> NotJson]

\* The time-off query is answered; every variant waiting for it goes on.
Fetch ==
    /\ {v \in Variants : AtStart(v)} /= {}
    /\ \E response \in FetchResponses :
        /\ \E new \in {[v \in Variants |->
                          IF AtStart(v) THEN FetchStep(v, response) ELSE Cur(v)]} :
              Take(new)
        /\ fetch_response' = response

LoopExit ==
    /\ {v \in Variants : AtLoopEnd(v)} /= {}
    /\ \E new \in {[v \in Variants |->
                      IF AtLoopEnd(v) THEN LoopExitStep(v) ELSE Cur(v)]} :
          Take(new)
    /\ UNCHANGED fetch_response

ProcessRecord ==
    /\ {v \in Variants : AtRecord(v)} /= {}
    /\ \E new \in {[v \in Variants |->
                      IF AtRecord(v) THEN ProcessRecordStep(v) ELSE Cur(v)]} :
          Take(new)
    /\ UNCHANGED fetch_response

\* The lookup by email is answered.
Lookup ==
    /\ {v \in Variants : AtLookup(v)} /= {}
    /\ \E response \in LookupResponses :
        /\ \E new \in {[v \in Variants |->
                          IF AtLookup(v) THEN LookupStep(v, response) ELSE Cur(v)]} :
              Take(new)
        /\ UNCHANGED fetch_response

\* The profile update is answered.
Update ==
    /\ {v \in Variants : AtUpdate(v)} /= {}
    /\ \E response \in UpdateResponses :
        /\ \E new \in {[v \in Variants |->
                          IF AtUpdate(v) THEN UpdateStep(v, response) ELSE Cur(v)]} :
              Take(new)
        /\ UNCHANGED fetch_response

Next == Fetch \/ LoopExit \/ ProcessRecord \/ Lookup \/ Update

Spec == Init /\ [][Next]_vars

(***************************************************************************)
(* Observations on a run                                                   *)
(***************************************************************************)
Terminated(v) == pc[v] \in {"returned", "raised"}

\* record i of the run has been left behind by the loop
Finished(v, i) == idx[v] > i \/ pc[v] = "returned"

\* the run died while it was at record i
RaisedAt(v, i) == pc[v] = "raised" /\ idx[v] = i

CallsFor(v, kind, i) ==
    {k \in 1..Len(calls[v]) : calls[v][k].kind = kind /\ calls[v][k].rec = i}

WarningsFor(v, i) ==
    {k \in 1..Len(log[v]) : log[v][k].level = "warning" /\ log[v][k].rec = i}

ErrorsFor(v, i) ==
    {k \in 1..Len(log[v]) : log[v][k].level = "error" /\ log[v][k].rec = i}

Records(v) == 1..Len(time_off_users[v])

\* the record's policy name is a key of the status table
InTable(v, i) ==
    LET p == time_off_users[v][i].policy_name
    IN  p.tag = "str" /\ p.val \in {"Vacations", "Sick"}

\* the lookup made for record i returned a user id
Resolved(v, i) ==
    \E k \in CallsFor(v, "lookup", i) : calls[v][k].outcome \in UserIds

\* the lookup made for record i was answered with ok false
Unresolved(v, i) ==
    \E k \in CallsFor(v, "lookup", i) : calls[v][k].outcome = "None"

(***************************************************************************)
(* C1: per fetched record, exactly one status update is issued when the    *)
(* policy is in STATUS_MAP and the lookup returned a user id, none         *)
(* otherwise, never more than one; the update carries the text and emoji   *)
(* of the record's policy.                                                 *)
(***************************************************************************)
C1_OneUpdatePerResolvedRecord ==
    \A v \in Variants : \A i \in Records(v) :
        /\ Cardinality(CallsFor(v, "update", i)) <= 1
        /\ (Terminated(v) \/ Finished(v, i)) =>
              Cardinality(CallsFor(v, "update", i)) =
                  (IF InTable(v, i) /\ Resolved(v, i) THEN 1 ELSE 0)
        /\ \A k \in CallsFor(v, "update", i) :
              LET p == time_off_users[v][i].policy_name.val
              IN  /\ p = "Vacations" =>
                        calls[v][k].text = "On Holiday" /\ calls[v][k].emoji = ":palm_tree:"
                  /\ p = "Sick" =>
                        calls[v][k].text = "Off Sick"
                        /\ calls[v][k].emoji = ":face_with_thermometer:"

C1_Witness ==
    \E v \in Variants :
        /\ pc[v] = "returned"
        /\ Len(time_off_users[v]) = 2
        /\ Cardinality(CallsFor(v, "update", 1)) = 1
        /\ Cardinality(CallsFor(v, "update", 2)) = 0
        /\ time_off_users[v][1].policy_name.val = "Sick"

(***************************************************************************)
(* C2: a record whose policy name is not a key of the status table, also   *)
(* one whose request carries no policyName, is skipped: no status update   *)
(* is issued for it and the run goes on to the next record.                *)
(***************************************************************************)
C2_UnknownPolicySkipped ==
    \A v \in Variants : \A i \in Records(v) :
        ~InTable(v, i) =>
            /\ CallsFor(v, "update", i) = {}
            /\ ~RaisedAt(v, i)

(***************************************************************************)
(* C3 as stated: a record with a known policy whose lookup is answered     *)
(* with ok false gets no status update and exactly one warning.            *)
(***************************************************************************)
C3_ExactlyOneWarning ==
    \A v \in Variants : \A i \in Records(v) :
        (InTable(v, i) /\ Unresolved(v, i) /\ Finished(v, i)) =>
            /\ CallsFor(v, "update", i) = {}
            /\ Cardinality(WarningsFor(v, i)) = 1

(***************************************************************************)
(* C3 as amended: such a record gets no status update; the standalone      *)
(* variant records one warning for it (in get_slack_user_id), the          *)
(* scheduled variant two (in get_slack_user_id and in the loop).           *)
(***************************************************************************)
C3_WarningsPerVariant ==
    \A v \in Variants : \A i \in Records(v) :
        (InTable(v, i) /\ Unresolved(v, i) /\ Finished(v, i)) =>
            /\ CallsFor(v, "update", i) = {}
            /\ Cardinality(WarningsFor(v, i)) = (IF v = "lambda" THEN 2 ELSE 1)

C3_Witness ==
    \E i \in Records("lambda") :
        /\ InTable("lambda", i) /\ Unresolved("lambda", i) /\ Finished("lambda", i)
        /\ InTable("main", i) /\ Unresolved("main", i) /\ Finished("main", i)

(***************************************************************************)
(* C4: when the time-off query is answered with a status other than 200,   *)
(* get_time_off_requests returns an empty sequence and the run makes no    *)
(* lookup and no status-update call before it completes.                   *)
(***************************************************************************)
C4_FetchFailureIsNoOp ==
    \A v \in Variants :
        (pc[v] /= "start" /\ fetch_response.status_code /= 200) =>
            /\ time_off_users[v] = <<>>
            /\ \A k \in 1..Len(calls[v]) : calls[v][k].kind = "fetch"
            /\ pc[v] /= "raised"

C4_Witness ==
    /\ \A v \in Variants : pc[v] = "returned"
    /\ fetch_response.status_code = 500
    /\ fetch_response.body.json
    /\ "requests" \in DOMAIN fetch_response.body.data.val
    /\ Len(fetch_response.body.data.val["requests"]) = 2

(***************************************************************************)
(* C5: no error is fatal: whatever the services answer, the run reaches    *)
(* the end of the record loop and lambda_handler returns the envelope      *)
(* with statusCode 200 and the fixed body.                                 *)
(***************************************************************************)
C5_NoErrorIsFatal ==
    /\ \A v \in Variants : pc[v] /= "raised"
    /\ pc["lambda"] = "returned" =>
          result["lambda"] =
              [statusCode |-> 200, body |-> "Lambda function completed successfully!"]

(***************************************************************************)
(* C6: a failed status update (a status other than 200, or a body without  *)
(* ok true) is logged, is not retried, and does not stop the batch.        *)
(***************************************************************************)
C6_FailedUpdateDoesNotStopBatch ==
    \A v \in Variants : \A k \in 1..Len(calls[v]) :
        (calls[v][k].kind = "update" /\ calls[v][k].outcome /= "updated") =>
            /\ Cardinality(ErrorsFor(v, calls[v][k].rec)) = 1
            /\ Cardinality(CallsFor(v, "update", calls[v][k].rec)) = 1
            /\ ~RaisedAt(v, calls[v][k].rec)

(***************************************************************************)
(* An independent reading of epoch seconds: the civil UTC date and time of *)
(* a count of seconds (days-to-civil after H. Hinnant), written as the     *)
(* characters YYYY-MM-DDTHH:MM:SS.                                         *)
(***************************************************************************)
DigitChar(n) ==
    CASE n = 0 -> "0" [] n = 1 -> "1" [] n = 2 -> "2" [] n = 3 -> "3"
      [] n = 4 -> "4" [] n = 5 -> "5" [] n = 6 -> "6" [] n = 7 -> "7"
      [] n = 8 -> "8" [] n = 9 -> "9"

TwoDigits(n) == <<DigitChar(n \div 10), DigitChar(n % 10)>>

FourDigits(n) == TwoDigits(n \div 100) \o TwoDigits(n % 100)

UtcText(e) ==
    LET z == (e \div 86400) + 719468
        sod == e % 86400
        era == z \div 146097
        doe == z - era * 146097
        yoe == (doe - (doe \div 1460) + (doe \div 36524) - (doe \div 146096)) \div 365
        doy == doe - (365 * yoe + (yoe \div 4) - (yoe \div 100))
        mp == (5 * doy + 2) \div 153
        d == doy - ((153 * mp + 2) \div 5) + 1
        m == IF mp < 10 THEN mp + 3 ELSE mp - 9
        y == yoe + era * 400 + (IF m <= 2 THEN 1 ELSE 0)
    IN  FourDigits(y) \o <<"-">> \o TwoDigits(m) \o <<"-">> \o TwoDigits(d) \o <<"T">>
        \o TwoDigits(sod \div 3600) \o <<":">> \o TwoDigits((sod % 3600) \div 60)
        \o <<":">> \o TwoDigits(sod % 60)

C9_EndOfSkippedRecordNeverParsed ==
    \A v \in Variants : \A i \in Records(v) :
        LET p == time_off_users[v][i].policy_name
        IN  (p.tag = "str" /\ p.val \notin {"Vacations", "Sick"}) => ~RaisedAt(v, i)

(***************************************************************************)
(* C10: the fetch call comes first; records are taken in the order of the  *)
(* "requests" collection; a record's lookup precedes its update, and both  *)
(* lie after every call of an earlier record and before every call of a    *)
(* later one; each record that reaches the resolver has its own lookup     *)
(* call, also when its email occurred in an earlier record.                *)
(***************************************************************************)
C10_CallsFollowResponseOrder ==
    \A v \in Variants :
        LET c == calls[v]
            reqs == Get(fetch_response.body.data, "requests", <<>>)
        IN  /\ \A k \in 1..Len(c) : (c[k].kind = "fetch") <=> (k = 1)
            /\ \A k, l \in 1..Len(c) :
                  k < l => \/ c[k].rec < c[l].rec
                           \/ /\ c[k].rec = c[l].rec
                              /\ c[k].kind = "lookup" /\ c[l].kind = "update"
                              /\ l = k + 1
            /\ \A k \in 2..Len(c) :
                  /\ c[k].rec \in 1..Len(reqs)
                  /\ c[k].email = reqs[c[k].rec].val["userEmail"]
            /\ \A k \in 1..Len(c) :
                  c[k].kind = "update" => CallsFor(v, "lookup", c[k].rec) /= {}
            /\ \A i \in Records(v) :
                  (InTable(v, i) /\ Finished(v, i)) =>
                      Cardinality(CallsFor(v, "lookup", i)) = 1

C10_Witness ==
    \E v \in Variants :
        /\ pc[v] = "returned"
        /\ Len(time_off_users[v]) = 2
        /\ time_off_users[v][1].email = time_off_users[v][2].email
        /\ Cardinality(CallsFor(v, "lookup", 1)) = 1
        /\ Cardinality(CallsFor(v, "lookup", 2)) = 1
        /\ Cardinality(CallsFor(v, "update", 1)) = 1
        /\ Cardinality(CallsFor(v, "update", 2)) = 1

====
